---- MODULE Spec2Model ----
(***************************************************************************)
(* Model of the product image acquisition pipeline:                        *)
(*   src/scripts/image_scraper.py  ProductImageScraper                     *)
(*     scrape_product_images, download_image, _get_image_info,             *)
(*     _calculate_quality_score                                            *)
(* One call of scrape_product_images is followed statement block by        *)
(* statement block; every network fetch is an input of the step that       *)
(* performs it.                                                            *)
(*                                                                         *)
(* Scores are kept in hundredths (0.4 is 40).  The images of the model are *)
(* chosen so that the order of their scores in hundredths is the order of  *)
(* the IEEE doubles the Python code computes for them.                     *)
(***************************************************************************)
EXTENDS Integers, Sequences, FiniteSets, TLC

\* ------------------------------------------------------------------ bounds
NumUrls == 3          \* distinct image URLs the sources can yield
MaxPerSource == 1     \* longest result list one source query returns
MaxMergeLen == 2      \* longest per-source list given to the merge on its own
MaxLoopLen == 3
MaxOverCap == 2       \* longest ranked list given to a CLI download loop

\* ------------------------------------------------------- program constants
MIN_SOURCES == 2
CANDIDATE_CAP == 15
GOOGLE_CAP == 10
MAX_RETRIES == 3
MIN_FILE_BYTES == 1024
COMPANY_CAP == 5      \* search_company_websites returns unique_urls[:5]
RESULT_CAP == 10      \* search_product_images returns unique_results[:10]
LOOP_CAP == 5         \* the CLI download loops try image_urls[:5]

\* ------------------------------------------------------------------ values
URLS == 1..NumUrls
EmptyUrl == 0                 \* the url "" of an error record
None == "None"                \* Python None for the string-valued fields
NoFile == [size |-> -1, valid |-> FALSE]     \* no file at a path
\* a file: its length, and whether its bytes are a decodable image
File(size, valid) == [size |-> size, valid |-> valid]

\* What a URL serves: declared content type, whether PIL can decode the body,
\* the body length and the decoded image metadata.  MidPng is a PNG that its
\* server declares as a byte stream, not as image/*.
TinyPng  == [ctype |-> "image/png", decodable |-> TRUE, size |-> 900,
             width |-> 500, height |-> 500, format |-> "png"]
StripGif == [ctype |-> "image/gif", decodable |-> TRUE, size |-> 900,
             width |-> 50, height |-> 200, format |-> "gif"]
MidPng   == [ctype |-> "application/octet-stream", decodable |-> TRUE, size |-> 6000,
             width |-> 300, height |-> 300, format |-> "png"]
GoodJpeg == [ctype |-> "image/jpeg", decodable |-> TRUE, size |-> 150000,
             width |-> 800, height |-> 800, format |-> "jpeg"]
\* The web the call runs against: URL u is the image Web[u], cyclically.
\* TinyPng and MidPng score the same (0.4+0.2+0.18 and 0.3+0.2+0.1+0.18 are
\* the same double, 0.78), the first is below the size minimum, the second
\* is not.  StripGif decodes and scores 0.0+0.05, the score of no metadata.
Web == <<TinyPng, StripGif, MidPng, GoodJpeg>>
Remote(u) == Web[((u - 1) % Len(Web)) + 1]
\* a 200 response that is no image (an error or consent page)
HtmlPage == [ctype |-> "text/html", decodable |-> FALSE, size |-> 2000,
             width |-> 0, height |-> 0, format |-> ""]
\* a fetch that raised (timeout, connection error, non-2xx status)
Raised == [ctype |-> "raised", decodable |-> FALSE, size |-> 0,
           width |-> 0, height |-> 0, format |-> ""]

\* what one GET of URL u can give: it raises, the server answers with a page
\* instead of the image, or it serves the image.  Only the first Len(Web)
\* URLs are taken to be unreliable; the URLs that long result lists add to
\* them always serve their image.
Responses(u) ==
    IF u <= Len(Web) THEN {Raised, HtmlPage, Remote(u)} ELSE {Remote(u)}

\* history entry for one GET: what it was made for, and of which URL
Fetched(kind, url) == [kind |-> kind, url |-> url]

PATHS == {"png", "jpeg", "jpg", "gif"}   \* <clean_name>_<product_id>.<format>

Min(a, b) == IF a <= b THEN a ELSE b
Max(a, b) == IF a >= b THEN a ELSE b

\* ImageResult (dataclass)
ImageResult(url, source, error) ==
    [url |-> url, source |-> source, quality_score |-> 0,
     width |-> 0, height |-> 0, file_size |-> 0, format |-> "", error |-> error]
NoneImage == ImageResult(-1, "None", None)    \* best_image = None

\* ScrapeResult (dataclass)
ScrapeResult(success, images, best_image, local_path, searched, error) ==
    [success |-> success, images |-> images, best_image |-> best_image,
     local_path |-> local_path, sources_searched |-> searched, error |-> error]
NoResult == ScrapeResult(FALSE, <<>>, NoneImage, None, <<>>, "pending")

\* ----------------------------------------------------------- pure helpers
SeqsUpTo(S, n) == UNION {[1..k -> S] : k \in 0..n}
IsInjective(s) == \A i, j \in DOMAIN s : s[i] = s[j] => i = j
Range(s) == {s[i] : i \in DOMAIN s}
\* the duplicate-free lists of at most n elements of S
InjectiveSeqs(S, n) == {q \in SeqsUpTo(S, n) : IsInjective(q)}

\* What one search_* method can return: the list of its unique_urls (already
\* made duplicate-free by dict.fromkeys) as ImageResults, or, when the query
\* raised, a single record with url "" and error set.
SearchReturns(source) ==
    {[i \in DOMAIN us |-> ImageResult(us[i], source, None)] :
        us \in {s \in SeqsUpTo(URLS, MaxPerSource) : IsInjective(s)}}
    \cup {<<ImageResult(EmptyUrl, source, "exception")>>}

\* the except branch of a search_* method was taken
QueryRaised(results) == \E i \in DOMAIN results : results[i].error # None

\* extends all_results with whatever the search returned
KeepAllResults(results) == results

\* [r for r in results if r.url and not r.error]
ValidResults(results) ==
    SelectSeq(results, LAMBDA r : r.url # EmptyUrl /\ r.error = None)

\* ------------------------------------------------ _calculate_quality_score
\* the ideal band without its upper limit on the longer side
ResolutionScoreNoUpper(width, height) ==
    LET min_dim == Min(width, height)
        max_dim == Max(width, height)
    IN  IF min_dim >= 400 THEN 40
        ELSE IF min_dim >= 200 /\ max_dim <= 2000 THEN 30
        ELSE IF min_dim >= 100 THEN 15
        ELSE 0

\* Resolution score (40% weight)
ResolutionScore(width, height) ==
    LET min_dim == Min(width, height)
        max_dim == Max(width, height)
    IN  IF min_dim >= 400 /\ max_dim <= 1200 THEN 40
        ELSE IF min_dim >= 200 /\ max_dim <= 2000 THEN 30
        ELSE IF min_dim >= 100 THEN 15
        ELSE 0

\* strict comparisons of the ratio
AspectScoreStrict(width, height) ==
    IF width > 0 /\ height > 0
    THEN IF 2 * Max(width, height) < 3 * Min(width, height) THEN 20
         ELSE IF Max(width, height) < 2 * Min(width, height) THEN 10
         ELSE 0
    ELSE 0

\* Aspect ratio score (20% weight); max/min <= 1.5 is 2*max <= 3*min
AspectScore(width, height) ==
    IF width > 0 /\ height > 0
    THEN IF 2 * Max(width, height) <= 3 * Min(width, height) THEN 20
         ELSE IF Max(width, height) <= 2 * Min(width, height) THEN 10
         ELSE 0
    ELSE 0

\* File size score (20% weight)
FileSizeScore(file_size) ==
    IF file_size > 0
    THEN IF 10000 <= file_size /\ file_size <= 500000 THEN 20
         ELSE IF 5000 <= file_size /\ file_size <= 1000000 THEN 10
         ELSE 0
    ELSE 0

\* str.lower() on the format names the model uses
Lower(format) ==
    CASE format = "JPEG" -> "jpeg"
      [] format = "PNG" -> "png"
      [] OTHER -> format

\* the format table without its 20% weight
FormatScoreUnweighted(format) ==
    CASE Lower(format) \in {"jpeg", "jpg"} -> 100
      [] Lower(format) = "png" -> 90
      [] Lower(format) = "webp" -> 75
      [] Lower(format) = "gif" -> 25
      [] OTHER -> 25

\* Format score (20% weight): format_scores.get(format.lower(), 0.05)
FormatScore(format) ==
    CASE Lower(format) \in {"jpeg", "jpg"} -> 20
      [] Lower(format) = "png" -> 18
      [] Lower(format) = "webp" -> 15
      [] Lower(format) = "gif" -> 5
      [] OTHER -> 5

\* leaves the format contribution out of the sum
ScoreWithoutFormat(width, height, file_size, format) ==
    Min(ResolutionScore(width, height) + AspectScore(width, height)
        + FileSizeScore(file_size), 100)

\* score in hundredths: the four contributions added up, "min(score, 1.0)"
CalculateQualityScore(width, height, file_size, format) ==
    Min(ResolutionScore(width, height) + AspectScore(width, height)
        + FileSizeScore(file_size) + FormatScore(format), 100)

\* --------------------------------------------------------- _get_image_info
\* response is Raised or the resource the URL serves; any exception
\* (request failure, Image.open on a body that is no image) gives zeros.
GetImageInfo(response) ==
    IF response = Raised \/ ~response.decodable
    THEN [width |-> 0, height |-> 0, file_size |-> 0, format |-> ""]
    ELSE [width |-> response.width, height |-> response.height,
          file_size |-> response.size, format |-> response.format]

\* ------------------------------------------------- duplicate removal by URL
RECURSIVE DedupFrom(_, _, _)
DedupFrom(all, seen_urls, unique) ==
    IF all = <<>> THEN unique
    ELSE IF Head(all).url \notin seen_urls
         THEN DedupFrom(Tail(all), seen_urls \cup {Head(all).url},
                        Append(unique, Head(all)))
         ELSE DedupFrom(Tail(all), seen_urls, unique)

\* keeps the last occurrence of a URL instead of the first
RECURSIVE DedupKeepLast(_)
DedupKeepLast(all) ==
    IF all = <<>> THEN <<>>
    ELSE IF \E i \in 2..Len(all) : all[i].url = Head(all).url
         THEN DedupKeepLast(Tail(all))
         ELSE <<Head(all)>> \o DedupKeepLast(Tail(all))

\* no duplicate removal at all
KeepDuplicates(all) == all

\* seen_urls = set(); unique_results = []; for result in all_results: ...
RemoveDuplicates(all) == DedupFrom(all, {}, <<>>)

\* ------------------------------ candidates.sort(key=score, reverse=True)
\* list.sort is stable, also with reverse=True: an element goes behind
\* every element whose key is greater than or equal to its own.
InsertDesc(sorted, x) ==
    LET ahead == {i \in 1..Len(sorted) : sorted[i].quality_score >= x.quality_score}
        k == IF ahead = {} THEN 0 ELSE CHOOSE i \in ahead : \A j \in ahead : j <= i
    IN  SubSeq(sorted, 1, k) \o <<x>> \o SubSeq(sorted, k + 1, Len(sorted))

RECURSIVE SortFrom(_, _)
SortFrom(rest, sorted) ==
    IF rest = <<>> THEN sorted
    ELSE SortFrom(Tail(rest), InsertDesc(sorted, Head(rest)))

Reverse(s) == [i \in 1..Len(s) |-> s[Len(s) + 1 - i]]

\* ascending sort followed by reverse(): equal scores come out swapped
SortAscThenReverse(cands) == SortFrom(Reverse(cands), <<>>)

\* candidates.sort(key=lambda x: x.quality_score, reverse=True)
SortByScoreDesc(cands) == SortFrom(cands, <<>>)

\* picks the tail of the list instead of the head
SelectLast(cands) == IF cands # <<>> THEN cands[Len(cands)] ELSE NoneImage

\* candidates[0] if candidates else None
SelectBest(cands) == IF cands # <<>> THEN cands[1] ELSE NoneImage

\* ------------------------------------------------------------------- state
VARIABLES
    pc,               \* position in scrape_product_images / download_image
    download,         \* the download argument of the call
    all_results, sources_searched, unique_results,
    candidates, score_i,        \* the scoring loop and its position
    best_image, local_path,
    attempt, content, filepath, \* download_image's locals
    files,            \* the output directory: path -> file
    result,           \* the ScrapeResult returned
    fetch_log,        \* history: every GET of an image URL, in order
    search_failed,    \* history: the sources whose query raised
    m_pc, m_lists, m_merged,  \* the merge taken on its own: inputs, output
    s_pc, s_in, s_score,      \* the quality score taken on its own
    c_pc, c_url, c_attempt,   \* download_image of the two CLI downloaders:
    c_response, c_file,       \* its position and locals, the file at
    c_fetches, c_ret,         \* filepath, its GETs so far, its return value
    p_pc, p_in, p_results,    \* search_product_images: inputs and output
    l_pc, l_urls, l_i,        \* the CLI download loop over the ranked
    l_downloaded              \* URLs: its position and success flag

scrapeVars == <<pc, download, all_results, sources_searched, unique_results, candidates,
                score_i, best_image, local_path, attempt, content, filepath,
                files, result>>
histVars == <<fetch_log, search_failed>>
mergeVars == <<m_pc, m_lists, m_merged>>
scoreVars == <<s_pc, s_in, s_score>>
cliVars == <<c_pc, c_url, c_attempt, c_response, c_file, c_fetches, c_ret>>
searchVars == <<p_pc, p_in, p_results>>
loopVars == <<l_pc, l_urls, l_i, l_downloaded>>
vars == <<pc, download, all_results, sources_searched, unique_results, candidates,
          score_i, best_image, local_path, attempt, content, filepath,
          files, result, fetch_log, search_failed, m_pc, m_lists, m_merged,
          s_pc, s_in, s_score,
          c_pc, c_url, c_attempt, c_response, c_file, c_fetches, c_ret,
          p_pc, p_in, p_results, l_pc, l_urls, l_i, l_downloaded>>

\* State at entry of scrape_product_images on a fresh output directory.
ScrapeInit ==
    /\ pc = "search_google"
    /\ download \in BOOLEAN
    /\ all_results = <<>>
    /\ sources_searched = <<>>
    /\ unique_results = <<>>
    /\ candidates = <<>>
    /\ score_i = 0
    /\ best_image = NoneImage
    /\ local_path = None
    /\ attempt = 0
    /\ content = Raised
    /\ filepath = None
    /\ files = [p \in PATHS |-> NoFile]
    /\ result = NoResult
    /\ fetch_log = <<>>
    /\ search_failed = {}

MergeIdle == m_pc = "idle" /\ m_lists = <<>> /\ m_merged = <<>>

NoMetadata == [width |-> 0, height |-> 0, file_size |-> 0, format |-> ""]
ScoreIdle == s_pc = "idle" /\ s_in = NoMetadata /\ s_score = 0

\* no call of a CLI downloader's download_image is under way
CliIdle ==
    /\ c_pc = "idle" /\ c_url = EmptyUrl /\ c_attempt = 0
    /\ c_response = Raised /\ c_file = NoFile /\ c_fetches = 0
    /\ c_ret = None

\* what search_product_images is given by its four searches when none
\* has run: nothing
NoSearchInput ==
    [google |-> <<>>, bing |-> <<>>, wikipedia |-> <<>>,
     domain |-> FALSE, site |-> <<>>, raised |-> FALSE]
SearchIdle == p_pc = "idle" /\ p_in = NoSearchInput /\ p_results = <<>>

LoopIdle == l_pc = "idle" /\ l_urls = <<>> /\ l_i = 0 /\ l_downloaded = FALSE

\* everything but scrape_product_images is at rest
OthersIdle == MergeIdle /\ ScoreIdle /\ CliIdle /\ SearchIdle /\ LoopIdle

Init == ScrapeInit /\ OthersIdle

\* ------------------------------------------------- scrape_product_images
\* the bing line written as a copy of the google line
AppendGoogleAgain(searched) == Append(searched, "google")

\* sources_searched.append('bing')
AppendBing(searched) == Append(searched, "bing")

\* counts google as searched only if it gave a valid result, as is done
\* for ecommerce
SearchGoogleCountsIfValid ==
    /\ pc = "search_google"
    /\ \E google_results \in SearchReturns("google") :
         /\ all_results' = all_results \o ValidResults(google_results)
         /\ search_failed' = IF QueryRaised(google_results)
                              THEN search_failed \cup {"google"}
                              ELSE search_failed
         /\ sources_searched' =
              IF ValidResults(google_results) # <<>>
              THEN Append(sources_searched, "google")
              ELSE sources_searched
    /\ pc' = "search_bing"
    /\ UNCHANGED <<download, unique_results,
                   candidates, score_i, best_image, local_path, attempt, content,
                   filepath, files, result, mergeVars, scoreVars, cliVars, searchVars,
                   loopVars, fetch_log>>

\* Search Google Images (Source 1)
SearchGoogle ==
    /\ pc = "search_google"
    /\ \E google_results \in SearchReturns("google") :
         /\ all_results' = all_results \o ValidResults(google_results)
         /\ search_failed' = IF QueryRaised(google_results)
                              THEN search_failed \cup {"google"}
                              ELSE search_failed
    /\ sources_searched' = Append(sources_searched, "google")
    /\ pc' = "search_bing"
    /\ UNCHANGED <<download, unique_results,
                   candidates, score_i, best_image, local_path, attempt, content,
                   filepath, files, result, mergeVars, scoreVars, cliVars, searchVars, loopVars, fetch_log>>

\* Search Bing Images (Source 2)
SearchBing ==
    /\ pc = "search_bing"
    /\ \E bing_results \in SearchReturns("bing") :
         /\ all_results' = all_results \o ValidResults(bing_results)
         /\ search_failed' = IF QueryRaised(bing_results)
                              THEN search_failed \cup {"bing"}
                              ELSE search_failed
    /\ sources_searched' = AppendBing(sources_searched)
    /\ pc' = "search_ecommerce"
    /\ UNCHANGED <<download, unique_results,
                   candidates, score_i, best_image, local_path, attempt, content,
                   filepath, files, result, mergeVars, scoreVars, cliVars, searchVars, loopVars, fetch_log>>

\* Search E-commerce sites (Source 3 - bonus)
SearchEcommerce ==
    /\ pc = "search_ecommerce"
    /\ \E ecommerce_results \in SearchReturns("ecommerce") :
         /\ all_results' = all_results \o ValidResults(ecommerce_results)
         /\ search_failed' = IF QueryRaised(ecommerce_results)
                              THEN search_failed \cup {"ecommerce"}
                              ELSE search_failed
         /\ sources_searched' =
              IF ValidResults(ecommerce_results) # <<>>
              THEN Append(sources_searched, "ecommerce")
              ELSE sources_searched
    /\ pc' = "check_sources"
    /\ UNCHANGED <<download, unique_results,
                   candidates, score_i, best_image, local_path, attempt, content,
                   filepath, files, result, mergeVars, scoreVars, cliVars, searchVars, loopVars, fetch_log>>

\* Verify we searched at least MIN_SOURCES
CheckMinSources ==
    /\ pc = "check_sources"
    /\ IF Len(sources_searched) < MIN_SOURCES
       THEN /\ result' = ScrapeResult(FALSE, <<>>, NoneImage, None,
                                      sources_searched, "InsufficientSources")
            /\ pc' = "done"
       ELSE /\ pc' = "dedup"
            /\ UNCHANGED result
    /\ UNCHANGED <<download, all_results, sources_searched, unique_results, candidates,
                   score_i, best_image, local_path, attempt, content, filepath,
                   files, mergeVars, scoreVars, cliVars, searchVars, loopVars, histVars>>

\* goes on to score, sort and return without the "if not unique_results"
\* early return
DeduplicateNoEmptyCheck ==
    /\ pc = "dedup"
    /\ unique_results' = RemoveDuplicates(all_results)
    /\ candidates' = SubSeq(unique_results', 1,
                            Min(CANDIDATE_CAP, Len(unique_results')))
    /\ score_i' = 1
    /\ pc' = IF candidates' = <<>> THEN "sort" ELSE "score"
    /\ UNCHANGED <<download, all_results, sources_searched, best_image, local_path,
                   attempt, content, filepath, files, result, mergeVars, scoreVars, cliVars, searchVars, loopVars,
                   histVars>>

\* builds the failure result but does not return: falls through to the
\* (empty) scoring loop, the sort and the final return
DeduplicateFallsThrough ==
    /\ pc = "dedup"
    /\ unique_results' = RemoveDuplicates(all_results)
    /\ candidates' = SubSeq(unique_results', 1,
                            Min(CANDIDATE_CAP, Len(unique_results')))
    /\ score_i' = 1
    /\ IF unique_results' = <<>>
       THEN /\ result' = ScrapeResult(FALSE, <<>>, NoneImage, None,
                                      sources_searched, "NoImagesFound")
            /\ pc' = "sort"
       ELSE /\ pc' = "score"
            /\ UNCHANGED result
    /\ UNCHANGED <<download, all_results, sources_searched, best_image, local_path,
                   attempt, content, filepath, files, mergeVars, scoreVars, cliVars,
                   searchVars, loopVars, histVars>>

\* scores every unique result
AllCandidates(unique) == unique

\* "candidates = unique_results[:15]"
Candidates(unique) == SubSeq(unique, 1, Min(CANDIDATE_CAP, Len(unique)))

\* Remove duplicates by URL; fail when nothing is left; else take the
\* first CANDIDATE_CAP results as the candidates to score.
Deduplicate ==
    /\ pc = "dedup"
    /\ unique_results' = RemoveDuplicates(all_results)
    /\ IF unique_results' = <<>>
       THEN /\ result' = ScrapeResult(FALSE, <<>>, NoneImage, None,
                                      sources_searched, "NoImagesFound")
            /\ pc' = "done"
            /\ UNCHANGED <<candidates, score_i>>
       ELSE /\ candidates' = Candidates(unique_results')
            /\ score_i' = 1
            /\ pc' = "score"
            /\ UNCHANGED result
    /\ UNCHANGED <<download, all_results, sources_searched, best_image, local_path,
                   attempt, content, filepath, files, mergeVars, scoreVars, cliVars,
                   searchVars, loopVars, histVars>>

\* One iteration of "for result in candidates": fetch the metadata of
\* candidates[score_i] and store it with its quality score.
ScoreCandidate ==
    /\ pc = "score"
    /\ score_i <= Len(candidates)
    /\ \E response \in Responses(candidates[score_i].url) :
         LET info == GetImageInfo(response)
         IN  /\ candidates' = [candidates EXCEPT ![score_i] =
                [@ EXCEPT !.width = info.width, !.height = info.height,
                          !.file_size = info.file_size, !.format = info.format,
                          !.quality_score = CalculateQualityScore(
                              info.width, info.height, info.file_size, info.format)]]
             /\ fetch_log' = Append(fetch_log,
                    Fetched("metadata", candidates[score_i].url))
    /\ score_i' = score_i + 1
    /\ pc' = IF score_i = Len(candidates) THEN "sort" ELSE "score"
    /\ UNCHANGED <<download, all_results, sources_searched, unique_results, best_image,
                   local_path, attempt, content, filepath, files, result,
                   mergeVars, scoreVars, cliVars, searchVars, loopVars, search_failed>>

\* downloads whether or not the caller asked for it
AlwaysDownload(dl, best) == best # NoneImage /\ best.url # EmptyUrl

\* "if download and best_image and best_image.url"
WantsDownload(dl, best) == dl /\ best # NoneImage /\ best.url # EmptyUrl

\* takes candidates[0] before the sort instead of after it
SelectBeforeSort ==
    /\ pc = "sort"
    /\ candidates' = SortByScoreDesc(candidates)
    /\ best_image' = SelectBest(candidates)
    /\ local_path' = None
    /\ IF WantsDownload(download, best_image')
       THEN pc' = "dl_fetch" /\ attempt' = 0
       ELSE pc' = "return" /\ UNCHANGED attempt
    /\ UNCHANGED <<download, all_results, sources_searched, unique_results, score_i,
                   content, filepath, files, result, mergeVars, scoreVars, cliVars,
                   searchVars, loopVars, histVars>>

\* Sort by quality score, select the best image, and enter download_image
\* if a download was requested.
SortAndSelect ==
    /\ pc = "sort"
    /\ candidates' = SortByScoreDesc(candidates)
    /\ best_image' = SelectBest(candidates')
    /\ local_path' = None
    /\ IF WantsDownload(download, best_image')
       THEN pc' = "dl_fetch" /\ attempt' = 0
       ELSE pc' = "return" /\ UNCHANGED attempt
    /\ UNCHANGED <<download, all_results, sources_searched, unique_results, score_i,
                   content, filepath, files, result, mergeVars, scoreVars, cliVars, searchVars, loopVars, histVars>>

\* return ScrapeResult(success=True, ...)
ReturnResult ==
    /\ pc = "return"
    /\ result' = ScrapeResult(TRUE, candidates, best_image, local_path,
                              sources_searched, None)
    /\ pc' = "done"
    /\ UNCHANGED <<download, all_results, sources_searched, unique_results, candidates,
                   score_i, best_image, local_path, attempt, content, filepath,
                   files, mergeVars, scoreVars, cliVars, searchVars, loopVars, histVars>>

\* ---------------------------------------------------------- download_image
\* rejects only an empty file
IsEmptyFile(size) == size = 0

\* os.path.getsize(filepath) < 1024
IsTooSmall(size) == size < MIN_FILE_BYTES

\* retries while attempt < max_retries: one attempt too many
RetryOnceMore ==
    IF attempt < MAX_RETRIES
    THEN attempt' = attempt + 1 /\ pc' = "dl_fetch" /\ UNCHANGED local_path
    ELSE pc' = "return" /\ local_path' = None /\ UNCHANGED attempt

\* "if attempt < max_retries - 1: sleep; continue" else "return None"
RetryOrGiveUp ==
    IF attempt < MAX_RETRIES - 1
    THEN attempt' = attempt + 1 /\ pc' = "dl_fetch" /\ UNCHANGED local_path
    ELSE pc' = "return" /\ local_path' = None /\ UNCHANGED attempt

\* session.get, raise_for_status, Image.open + verify, filename generation
DlFetch ==
    /\ pc = "dl_fetch"
    /\ \E response \in Responses(best_image.url) :
         /\ fetch_log' = Append(fetch_log,
                Fetched("download", best_image.url))
         /\ IF response = Raised \/ ~response.decodable
            THEN RetryOrGiveUp /\ UNCHANGED <<content, filepath>>
            ELSE /\ content' = response
                 /\ filepath' = IF response.format # "" THEN response.format ELSE "jpg"
                 /\ pc' = "dl_open"
                 /\ UNCHANGED <<attempt, local_path>>
    /\ UNCHANGED <<download, all_results, sources_searched, unique_results, candidates,
                   score_i, best_image, files, result, mergeVars, scoreVars, cliVars, searchVars, loopVars,
                   search_failed>>

\* open(filepath, 'wb') creates the file, or truncates the one that is there
DlOpen ==
    /\ pc = "dl_open"
    /\ files' = [files EXCEPT ![filepath] = File(0, FALSE)]
    /\ pc' = "dl_write"
    /\ UNCHANGED <<download, all_results, sources_searched, unique_results, candidates,
                   score_i, best_image, local_path, attempt, content, filepath,
                   result, mergeVars, scoreVars, cliVars, searchVars, loopVars, histVars>>

\* f.write(content) and close
DlWrite ==
    /\ pc = "dl_write"
    /\ files' = [files EXCEPT ![filepath] = File(content.size, content.decodable)]
    /\ pc' = "dl_check"
    /\ UNCHANGED <<download, all_results, sources_searched, unique_results, candidates,
                   score_i, best_image, local_path, attempt, content, filepath,
                   result, mergeVars, scoreVars, cliVars, searchVars, loopVars, histVars>>

\* Verify file size: remove and retry, or return filepath
DlCheck ==
    /\ pc = "dl_check"
    /\ IF IsTooSmall(files[filepath].size)
       THEN /\ files' = [files EXCEPT ![filepath] = NoFile]
            /\ RetryOrGiveUp
       ELSE /\ local_path' = filepath
            /\ pc' = "return"
            /\ UNCHANGED <<files, attempt>>
    /\ UNCHANGED <<download, all_results, sources_searched, unique_results, candidates,
                   score_i, best_image, content, filepath, result, mergeVars,
                   scoreVars, cliVars, searchVars, loopVars, histVars>>

\* The call is cancelled inside download_image (KeyboardInterrupt, kill):
\* "except Exception" does not catch it and nothing cleans up.
Interrupt ==
    /\ pc \in {"dl_fetch", "dl_open", "dl_write", "dl_check"}
    /\ pc' = "interrupted"
    /\ UNCHANGED <<download, all_results, sources_searched, unique_results, candidates,
                   score_i, best_image, local_path, attempt, content, filepath,
                   files, result, mergeVars, scoreVars, cliVars, searchVars, loopVars, histVars>>

Next ==
    \/ SearchGoogle
    \/ SearchBing
    \/ SearchEcommerce
    \/ CheckMinSources
    \/ Deduplicate
    \/ ScoreCandidate
    \/ SortAndSelect
    \/ DlFetch
    \/ DlOpen
    \/ DlWrite
    \/ DlCheck
    \/ Interrupt
    \/ ReturnResult

Spec == Init /\ [][Next]_vars

\* The call when nothing cancels it.  The code is one sequential thread:
\* every request has a timeout, every loop is a for loop over a finite list
\* or range, so a step that can be taken is taken.
LiveNext ==
    \/ SearchGoogle
    \/ SearchBing
    \/ SearchEcommerce
    \/ CheckMinSources
    \/ Deduplicate
    \/ ScoreCandidate
    \/ SortAndSelect
    \/ DlFetch
    \/ DlOpen
    \/ DlWrite
    \/ DlCheck
    \/ ReturnResult

SpecLive == Init /\ [][LiveNext]_vars /\ WF_vars(LiveNext)

\* ------------------------------------------- long result lists (the cap)
\* The call after its searches, when google filled its GOOGLE_CAP results
\* and bing gave the rest: n results, URLs ascending or descending, the
\* first bing result possibly a URL google had already found.
LongResults(n, descending, dup) ==
    [i \in 1..n |->
        ImageResult(IF dup /\ i = GOOGLE_CAP + 1
                    THEN (IF descending THEN n ELSE 1)
                    ELSE (IF descending THEN n + 1 - i ELSE i),
                    IF i <= GOOGLE_CAP THEN "google" ELSE "bing",
                    None)]

CapInit ==
    /\ OthersIdle
    /\ pc = "dedup"
    /\ download = FALSE
    /\ \E n \in (CANDIDATE_CAP - 2)..(CANDIDATE_CAP + MaxOverCap),
          descending \in BOOLEAN, dup \in BOOLEAN :
          all_results = LongResults(n, descending, dup)
    /\ sources_searched = <<"google", "bing">>
    /\ unique_results = <<>>
    /\ candidates = <<>>
    /\ score_i = 0
    /\ best_image = NoneImage
    /\ local_path = None
    /\ attempt = 0
    /\ content = Raised
    /\ filepath = None
    /\ files = [p \in PATHS |-> NoFile]
    /\ result = NoResult
    /\ fetch_log = <<>>
    /\ search_failed = {}

CapNext ==
    \/ Deduplicate
    \/ ScoreCandidate
    \/ SortAndSelect
    \/ ReturnResult

SpecCap == CapInit /\ [][CapNext]_vars

\* ------------------------------------------- the merge as a pure function
MERGE_SOURCES == <<"google", "bing", "ecommerce">>

\* all_results.extend(...) for each source in priority order
RECURSIVE Concat(_)
Concat(lists) == IF lists = <<>> THEN <<>> ELSE Head(lists) \o Concat(Tail(lists))

AllResults(lists) ==
    Concat([k \in DOMAIN lists |->
              [i \in DOMAIN lists[k] |->
                  ImageResult(lists[k][i], MERGE_SOURCES[k], None)]])

ScrapeIdle ==
    /\ pc = "idle"
    /\ download = FALSE
    /\ all_results = <<>>
    /\ sources_searched = <<>>
    /\ unique_results = <<>>
    /\ candidates = <<>>
    /\ score_i = 0
    /\ best_image = NoneImage
    /\ local_path = None
    /\ attempt = 0
    /\ content = Raised
    /\ filepath = None
    /\ files = [p \in PATHS |-> NoFile]
    /\ result = NoResult
    /\ fetch_log = <<>>
    /\ search_failed = {}

\* any per-source URL lists, duplicates inside a list included
MergeInit ==
    /\ ScrapeIdle
    /\ ScoreIdle
    /\ CliIdle
    /\ SearchIdle
    /\ LoopIdle
    /\ m_pc = "merge"
    /\ m_lists \in [1..Len(MERGE_SOURCES) -> SeqsUpTo(URLS, MaxMergeLen)]
    /\ m_merged = <<>>

MergeLists ==
    /\ m_pc = "merge"
    /\ m_merged' = RemoveDuplicates(AllResults(m_lists))
    /\ m_pc' = "merged"
    /\ UNCHANGED <<m_lists, scrapeVars, histVars, scoreVars, cliVars, searchVars, loopVars>>

MergeNext == MergeLists

SpecMerge == MergeInit /\ [][MergeNext]_vars

\* --------------------------------- the quality score as a pure function
\* Sides, byte sizes and format names on both sides of every threshold of
\* _calculate_quality_score, with pairs of equal aspect ratio among them.
DIMS == {0, 45, 60, 90, 99, 100, 199, 200, 399, 400, 600, 1200, 1201, 2000, 2001}
SIZES == {0, 900, 4999, 5000, 9999, 10000, 500000, 500001, 1000000, 1000001}
FORMATS == {"", "jpeg", "jpg", "png", "webp", "gif", "bmp", "JPEG", "PNG"}

ScoreInit ==
    /\ ScrapeIdle
    /\ MergeIdle
    /\ CliIdle
    /\ SearchIdle
    /\ LoopIdle
    /\ s_pc = "score"
    /\ s_in \in [width : DIMS, height : DIMS, file_size : SIZES, format : FORMATS]
    /\ s_score = 0

\* score = self._calculate_quality_score(width, height, file_size, format)
ApplyScore ==
    /\ s_pc = "score"
    /\ s_score' = CalculateQualityScore(s_in.width, s_in.height,
                                        s_in.file_size, s_in.format)
    /\ s_pc' = "scored"
    /\ UNCHANGED <<s_in, scrapeVars, histVars, mergeVars, cliVars, searchVars, loopVars>>

ScoreNext == ApplyScore

SpecScore == ScoreInit /\ [][ScoreNext]_vars

\* ------------------------- download_image of the two CLI downloaders
\* ProductImageDownloader.download_image and HULImageDownloader.download_image
\* are the same code; max_retries is 3 in both.

\* content_type.startswith('image/')
IsImageType(ctype) == ctype \in {"image/png", "image/jpeg", "image/gif"}

\* what can be at filepath when the call starts: nothing, a file of an
\* earlier run, whole or not
EXISTING_FILES == {NoFile, File(0, FALSE), File(6000, TRUE)}

CliInit ==
    /\ ScrapeIdle
    /\ MergeIdle
    /\ ScoreIdle
    /\ SearchIdle
    /\ LoopIdle
    /\ c_pc = "exists"
    /\ c_url \in DOMAIN Web
    /\ c_attempt = 0
    /\ c_response = Raised
    /\ c_file \in EXISTING_FILES
    /\ c_fetches = 0
    /\ c_ret = None

\* "if attempt < max_retries - 1: sleep; continue" else "return False"
CliRetryOrGiveUp ==
    IF c_attempt < MAX_RETRIES - 1
    THEN c_attempt' = c_attempt + 1 /\ c_pc' = "exists" /\ UNCHANGED c_ret
    ELSE c_pc' = "returned" /\ c_ret' = "False" /\ UNCHANGED c_attempt

\* downloads whether or not the file is there
CliNeverSkips ==
    /\ c_pc = "exists"
    /\ c_pc' = "fetch"
    /\ UNCHANGED <<c_url, c_attempt, c_response, c_file, c_fetches, c_ret,
                   scrapeVars, histVars, mergeVars, scoreVars,
                   searchVars, loopVars>>

\* top of an iteration: "if os.path.exists(filepath): return True"
CliCheckExists ==
    /\ c_pc = "exists"
    /\ IF c_file # NoFile
       THEN c_pc' = "returned" /\ c_ret' = "True"
       ELSE c_pc' = "fetch" /\ UNCHANGED c_ret
    /\ UNCHANGED <<c_url, c_attempt, c_response, c_file, c_fetches,
                   scrapeVars, histVars, mergeVars, scoreVars,
                   searchVars, loopVars>>

\* session.get, raise_for_status, the content-type check, Image.open + verify
CliFetch ==
    /\ c_pc = "fetch"
    /\ c_fetches' = c_fetches + 1
    /\ fetch_log' = Append(fetch_log, Fetched("cli", c_url))
    /\ \E response \in Responses(c_url) :
         IF \/ response = Raised
            \/ ~IsImageType(response.ctype)
            \/ ~response.decodable
         THEN CliRetryOrGiveUp /\ UNCHANGED c_response
         ELSE /\ c_response' = response
              /\ c_pc' = "open"
              /\ UNCHANGED <<c_attempt, c_ret>>
    /\ UNCHANGED <<c_url, c_file, scrapeVars, search_failed, mergeVars, scoreVars,
                   searchVars, loopVars>>

\* open(filepath, 'wb')
CliOpen ==
    /\ c_pc = "open"
    /\ c_file' = File(0, FALSE)
    /\ c_pc' = "write"
    /\ UNCHANGED <<c_url, c_attempt, c_response, c_fetches, c_ret,
                   scrapeVars, histVars, mergeVars, scoreVars,
                   searchVars, loopVars>>

\* f.write(response.content) and close; or the write raises (disk full,
\* I/O error) with nothing of the body stored, the with block closes the
\* file and "except Exception" retries or returns False
CliWrite ==
    /\ c_pc = "write"
    /\ \/ /\ c_file' = File(c_response.size, c_response.decodable)
          /\ c_pc' = "check"
          /\ UNCHANGED <<c_attempt, c_ret>>
       \/ /\ UNCHANGED c_file
          /\ CliRetryOrGiveUp
    /\ UNCHANGED <<c_url, c_response, c_fetches,
                   scrapeVars, histVars, mergeVars, scoreVars,
                   searchVars, loopVars>>

\* the size check: remove and retry, or return True
CliCheck ==
    /\ c_pc = "check"
    /\ IF IsTooSmall(c_file.size)
       THEN c_file' = NoFile /\ CliRetryOrGiveUp
       ELSE c_pc' = "returned" /\ c_ret' = "True" /\ UNCHANGED <<c_file, c_attempt>>
    /\ UNCHANGED <<c_url, c_response, c_fetches,
                   scrapeVars, histVars, mergeVars, scoreVars,
                   searchVars, loopVars>>

CliNext ==
    \/ CliCheckExists
    \/ CliFetch
    \/ CliOpen
    \/ CliWrite
    \/ CliCheck

SpecCli == CliInit /\ [][CliNext]_vars

\* The three download_image functions side by side: a call of
\* scrape_product_images, or a call of a CLI downloader's download_image.
DownloadersNext ==
    \/ Next
    \/ CliNext

SpecDownloaders == (Init \/ CliInit) /\ [][DownloadersNext]_vars

\* ------------------------------------------- the CLI download loops
\* main of product_image_downloader.py (results[0], then results[1:5]) and
\* download_product_images of hul_image_downloader.py (image_urls[:5]) call
\* download_image with one filename for each URL of the duplicate-free
\* ranked list in turn, until a call returns True.

\* skips the head of the list, as "results[1:5]" without "results[0]" would
SkipOne(i) == i + 2

\* the index of the next URL to try
NextIndex(i) == i + 1

LoopInit ==
    /\ ScrapeIdle
    /\ MergeIdle /\ ScoreIdle /\ SearchIdle
    /\ l_pc = "loop"
    /\ l_urls \in InjectiveSeqs(DOMAIN Web, MaxLoopLen)
    /\ l_i = 0
    /\ l_downloaded = FALSE
    /\ c_pc = "idle" /\ c_url = EmptyUrl /\ c_attempt = 0
    /\ c_response = Raised
    /\ c_file \in EXISTING_FILES
    /\ c_fetches = 0
    /\ c_ret = None

\* next iteration: call download_image(url, filename), or leave the loop
\* when the list (cut at LOOP_CAP) is used up
LoopCall ==
    /\ l_pc = "loop"
    /\ IF NextIndex(l_i) <= Min(Len(l_urls), LOOP_CAP)
       THEN /\ l_i' = NextIndex(l_i)
            /\ c_url' = l_urls[l_i']
            /\ c_pc' = "exists"
            /\ c_attempt' = 0 /\ c_fetches' = 0
            /\ c_response' = Raised /\ c_ret' = None
            /\ l_pc' = "call"
       ELSE /\ l_pc' = "done"
            /\ UNCHANGED <<l_i, c_url, c_pc, c_attempt, c_fetches, c_response,
                           c_ret>>
    /\ UNCHANGED <<l_urls, l_downloaded, c_file, scrapeVars, histVars, mergeVars,
                   scoreVars, searchVars>>

\* download_image returned: "success = True; break", or go on
LoopReturn ==
    /\ l_pc = "call"
    /\ c_pc = "returned"
    /\ IF c_ret = "True"
       THEN l_downloaded' = TRUE /\ l_pc' = "done"
       ELSE l_pc' = "loop" /\ UNCHANGED l_downloaded
    /\ c_pc' = "idle"
    /\ UNCHANGED <<l_urls, l_i, c_url, c_attempt, c_response, c_file, c_fetches,
                   c_ret, scrapeVars, histVars, mergeVars, scoreVars, searchVars>>

LoopNext ==
    \/ LoopCall
    \/ LoopReturn
    \/ CliNext

SpecLoop == LoopInit /\ [][LoopNext]_vars

\* ---------------- search_product_images of ProductImageDownloader, and main
\* URLs that search_company_websites makes up: five guessed paths on the
\* company's domain, three placeholder-service images; and the four
\* placeholder-service URLs get_fallback_image_url picks from
PatternUrls == [i \in 1..5 |-> NumUrls + i]
PlaceholderUrls == [i \in 1..3 |-> NumUrls + 5 + i]
FallbackUrls == [i \in 1..4 |-> NumUrls + 8 + i]
IsPlaceholder(url) == url \in Range(PlaceholderUrls) \cup Range(FallbackUrls)

\* list(dict.fromkeys(image_urls))
RECURSIVE DedupUrls(_)
DedupUrls(urls) ==
    IF urls = <<>> THEN <<>>
    ELSE LET init == DedupUrls(SubSeq(urls, 1, Len(urls) - 1))
             last == urls[Len(urls)]
         IN  IF last \in Range(init) THEN init ELSE Append(init, last)

\* urls[:n]
Take(list, n) == SubSeq(list, 1, Min(n, Len(list)))

\* search_company_websites: domain says whether the brand is in
\* company_domains, site is what the search page of that domain gave, raised
\* that every attempt ended in the except branch
SearchCompanyWebsites(domain, site, raised) ==
    LET found == IF domain
                 THEN IF site # <<>> THEN site ELSE PatternUrls
                 ELSE <<>>
        image_urls == IF found = <<>> THEN PlaceholderUrls ELSE found
    IN  IF raised THEN <<>> ELSE Take(DedupUrls(image_urls), COMPANY_CAP)

\* {'url': url, 'source': source, 'confidence': confidence}
SearchResult(url, source, confidence) ==
    [url |-> url, source |-> source, confidence |-> confidence]

Labelled(urls, source, confidence) ==
    [i \in DOMAIN urls |-> SearchResult(urls[i], source, confidence)]

\* unique_results.sort(key=confidence, reverse=True): stable
RECURSIVE SortByConfidence(_)
SortByConfidence(list) ==
    IF list = <<>> THEN <<>>
    ELSE LET top == CHOOSE i \in DOMAIN list :
                      /\ \A j \in DOMAIN list : list[j].confidence <= list[i].confidence
                      /\ \A j \in 1..(i - 1) : list[j].confidence < list[i].confidence
         IN  <<list[top]>> \o SortByConfidence(
                 SubSeq(list, 1, top - 1) \o SubSeq(list, top + 1, Len(list)))

\* search_product_images, confidences in hundredths
SearchProductImages(in) ==
    LET all_found ==
            Labelled(in.google, "google", 90) \o Labelled(in.bing, "bing", 80)
            \o Labelled(in.wikipedia, "wikipedia", 70)
            \o Labelled(SearchCompanyWebsites(in.domain, in.site, in.raised),
                        "company", 60)
    IN  Take(SortByConfidence(RemoveDuplicates(all_found)), RESULT_CAP)

SearchInit ==
    /\ ScrapeIdle
    /\ MergeIdle /\ ScoreIdle /\ CliIdle /\ LoopIdle
    /\ p_pc = "search"
    /\ p_in \in [google : InjectiveSeqs(URLS, MaxPerSource),
                  bing : InjectiveSeqs(URLS, MaxPerSource),
                  wikipedia : InjectiveSeqs(URLS, MaxPerSource),
                  domain : BOOLEAN,
                  site : SeqsUpTo(URLS, MaxPerSource),
                  raised : BOOLEAN]
    /\ p_results = <<>>

\* results = downloader.search_product_images(args.product, args.brand)
RunSearch ==
    /\ p_pc = "search"
    /\ p_results' = SearchProductImages(p_in)
    /\ p_pc' = "searched"
    /\ UNCHANGED <<p_in, scrapeVars, histVars, mergeVars, scoreVars, cliVars,
                   loopVars>>

\* main: "if not results": one fallback URL under source 'fallback'
UseFallbackIfEmpty ==
    /\ p_pc = "searched"
    /\ IF p_results = <<>>
       THEN \E k \in DOMAIN FallbackUrls :
               p_results' = <<SearchResult(FallbackUrls[k], "fallback", 10)>>
       ELSE UNCHANGED p_results
    /\ p_pc' = "ready"
    /\ UNCHANGED <<p_in, scrapeVars, histVars, mergeVars, scoreVars, cliVars,
                   loopVars>>

SearchNext ==
    \/ RunSearch
    \/ UseFallbackIfEmpty

SpecSearch == SearchInit /\ [][SearchNext]_vars

\* ===================================================================== claims
Returned == pc = "done"
Images == result.images

\* sources that returned at least one non-error result
SourcesWithResults == {all_results[i].source : i \in DOMAIN all_results}

\* a resource that download validation accepts
Downloadable(r) == r.decodable /\ r.size >= MIN_FILE_BYTES

\* position of a URL in the deduplicated merge
DiscoveryOrder(url) ==
    CHOOSE i \in DOMAIN unique_results : unique_results[i].url = url

\* C1: when some but fewer than MIN_SOURCES sources returned a non-error
\* result (the spec's case: 1 of 3), the call returns success=false with the
\* insufficient-sources error and sources_searched holds exactly the sources
\* that returned results.
C1_InsufficientSources ==
    (/\ Returned
     /\ SourcesWithResults # {}
     /\ Cardinality(SourcesWithResults) < MIN_SOURCES)
        => /\ result.success = FALSE
           /\ result.error = "InsufficientSources"
           /\ Range(result.sources_searched) = SourcesWithResults

\* C2: with download requested and three ranked candidates of which the
\* first two cannot pass download validation and the third can, the call
\* returns success with a local path and the third candidate as chosen.
C2_DownloadFallback ==
    (/\ Returned /\ download /\ Len(candidates) = 3
     /\ ~Downloadable(Remote(candidates[1].url))
     /\ ~Downloadable(Remote(candidates[2].url))
     /\ Downloadable(Remote(candidates[3].url)))
        => /\ result.success
           /\ result.local_path # None
           /\ result.best_image.url = candidates[3].url

\* C3: a call with download requested that stored no file returns a failed
\* result: success=false and an error set.
C3_ExhaustedIsFailure ==
    (Returned /\ download /\ result.local_path = None)
        => (result.success = FALSE /\ result.error # None)

\* C4: local_path is present in a returned result only if the file at that
\* path is a verified image of at least MIN_FILE_BYTES bytes.
C4_LocalPathIsStoredImage ==
    (Returned /\ result.local_path # None)
        => /\ files[result.local_path] # NoFile
           /\ files[result.local_path].valid
           /\ files[result.local_path].size >= MIN_FILE_BYTES

C4_Witness ==
    /\ Returned /\ result.local_path # None /\ attempt > 0
    /\ \E i \in DOMAIN Images : ~Downloadable(Remote(Images[i].url))

\* C5: after a cancelled download every path of the output directory is
\* absent or holds a complete verified file of at least MIN_FILE_BYTES.
C5_CancelLeavesNoPartialFile ==
    pc = "interrupted"
        => \A p \in PATHS :
              files[p] = NoFile
              \/ (files[p].valid /\ files[p].size >= MIN_FILE_BYTES)

\* C6: best_image, if present, is an element of images with the maximum
\* score, and among those with the maximum score the earliest discovered.
C6_ChosenIsBest ==
    (Returned /\ result.best_image # NoneImage)
        => /\ \E i \in DOMAIN Images : Images[i] = result.best_image
           /\ \A j \in DOMAIN Images :
                /\ Images[j].quality_score <= result.best_image.quality_score
                /\ Images[j].quality_score = result.best_image.quality_score
                     => DiscoveryOrder(result.best_image.url)
                          <= DiscoveryOrder(Images[j].url)

C6_Witness ==
    /\ Returned /\ result.best_image # NoneImage /\ Len(Images) = 3
    /\ \E j \in DOMAIN Images :
         /\ Images[j] # result.best_image
         /\ Images[j].quality_score = result.best_image.quality_score
    /\ \E j \in DOMAIN Images :
         Images[j].quality_score < result.best_image.quality_score
    /\ DiscoveryOrder(result.best_image.url) > 1

\* C7: after the sort the candidates are in non-increasing score order and
\* candidates of equal score are in discovery order.
C7_RankedOrder ==
    pc \in {"return", "dl_fetch", "dl_open", "dl_write", "dl_check",
            "interrupted", "done"}
        => \A i, j \in DOMAIN candidates :
              i < j =>
                 \/ candidates[i].quality_score > candidates[j].quality_score
                 \/ /\ candidates[i].quality_score = candidates[j].quality_score
                    /\ DiscoveryOrder(candidates[i].url)
                         < DiscoveryOrder(candidates[j].url)

C7_Witness ==
    /\ pc = "return" /\ Len(candidates) = 3
    /\ candidates[2].quality_score = candidates[3].quality_score
    /\ candidates[1].quality_score > candidates[2].quality_score
    /\ DiscoveryOrder(candidates[1].url) = 3

\* C8: the merge keeps every URL of the input exactly once, as the record
\* of its first occurrence (so with that occurrence's source), and keeps
\* first occurrences in their input order.
FirstIndex(all, url) ==
    CHOOSE i \in DOMAIN all :
        all[i].url = url /\ \A j \in DOMAIN all : all[j].url = url => i <= j

C8_MergeKeepsFirst ==
    m_pc = "merged" =>
        LET all == AllResults(m_lists)
        IN  /\ \A i \in DOMAIN all :
                 Cardinality({k \in DOMAIN m_merged :
                                 m_merged[k].url = all[i].url}) = 1
            /\ \A k \in DOMAIN m_merged :
                 /\ \E i \in DOMAIN all : all[i].url = m_merged[k].url
                 /\ m_merged[k] = all[FirstIndex(all, m_merged[k].url)]
            /\ \A k, l \in DOMAIN m_merged :
                 k < l => FirstIndex(all, m_merged[k].url)
                            < FirstIndex(all, m_merged[l].url)

C8_Witness ==
    /\ m_pc = "merged"
    /\ Len(m_lists[1]) = 2 /\ m_lists[1][1] # m_lists[1][2]
    /\ Len(m_lists[2]) = 2 /\ m_lists[2][1] = m_lists[2][2]
    /\ m_lists[2][1] = m_lists[1][2]
    /\ Len(m_lists[3]) = 2 /\ m_lists[3][1] \notin Range(m_lists[1])
    /\ m_lists[3][2] = m_lists[1][1]
    /\ Len(m_merged) = 3

\* C9: the URLs of the images of a returned result are pairwise distinct.
C9_DistinctUrls ==
    Returned =>
        \A i, j \in DOMAIN Images : Images[i].url = Images[j].url => i = j

C9_Witness ==
    /\ Returned /\ result.success
    /\ Len(Images) = 2 /\ Len(all_results) = 3

\* C10: a returned result with success=true names at least MIN_SOURCES
\* distinct sources in sources_searched.
C10_SuccessHasMinSources ==
    (Returned /\ result.success)
        => Cardinality(Range(result.sources_searched)) >= MIN_SOURCES

C10_Witness ==
    /\ Returned /\ result.success
    /\ result.sources_searched = <<"google", "bing">>
    /\ Cardinality(SourcesWithResults) = 1

\* the output directory holds no file
NoFileWritten == \A p \in PATHS : files[p] = NoFile

\* C11: when the minimum-sources check passes and no source returned a usable
\* URL, the call returns a failed result (success=false, error set, no chosen
\* candidate, no local_path) and has made no metadata fetch and no download.
C11_EmptyMergeFails ==
    (Returned /\ Len(sources_searched) >= MIN_SOURCES /\ all_results = <<>>)
        => /\ result.success = FALSE
           /\ result.error # None
           /\ result.best_image = NoneImage
           /\ result.images = <<>>
           /\ result.local_path = None
           /\ fetch_log = <<>>
           /\ NoFileWritten

C11_Witness ==
    /\ Returned /\ download
    /\ Len(sources_searched) >= MIN_SOURCES
    /\ all_results = <<>>
    /\ result.error = "NoImagesFound"

\* no record of the list is an error record or comes from a failed source
NoErrorRecord(list) ==
    \A i \in DOMAIN list :
        /\ list[i].url # EmptyUrl
        /\ list[i].error = None
        /\ list[i].source \notin search_failed

UrlsOf(list) == {list[i].url : i \in DOMAIN list}

\* the URLs whose metadata was fetched
ScoredUrls ==
    {fetch_log[i].url : i \in {k \in DOMAIN fetch_log : fetch_log[k].kind = "metadata"}}

\* C12: a source query that fails does not abort the call: the failed source
\* contributes no candidate (its error record is in no list), and the results
\* of the other sources are still merged, scored and ranked in the result.
C12_FailedSourceAbsorbed ==
    /\ NoErrorRecord(all_results)
    /\ NoErrorRecord(unique_results)
    /\ NoErrorRecord(candidates)
    /\ (Returned /\ search_failed # {} /\ all_results # <<>>)
          => /\ result.success
             /\ NoErrorRecord(Images)
             /\ UrlsOf(Images) = UrlsOf(all_results)
             /\ ScoredUrls = UrlsOf(all_results)
             /\ \A i, j \in DOMAIN Images :
                   i < j => Images[i].quality_score >= Images[j].quality_score

C12_Witness ==
    /\ Returned
    /\ "google" \in search_failed
    /\ Len(Images) = 2
    /\ Images[1].source = "ecommerce"
    /\ Images[2].source = "bing"
    /\ Images[1].quality_score > Images[2].quality_score

\* the GETs made by download_image so far
DownloadFetches == SelectSeq(fetch_log, LAMBDA f : f.kind = "download")

\* C13: one call of download_image, in the scraper and in the CLI
\* downloaders, fetches its URL at most MAX_RETRIES times, whichever way the
\* attempts fail (the GET raises, the content type is not an image, the body
\* does not decode, the written file is below MIN_FILE_BYTES), and it returns
\* failure only after the last of them.
C13_AttemptCap ==
    /\ Len(DownloadFetches) <= MAX_RETRIES
    /\ \A i \in DOMAIN DownloadFetches : DownloadFetches[i].url = best_image.url
    /\ (pc \in {"dl_fetch", "dl_open", "dl_write", "dl_check"})
          => Len(DownloadFetches) <= attempt + 1
    /\ (pc \in {"return", "done"} /\ DownloadFetches # <<>> /\ local_path = None)
          => Len(DownloadFetches) = MAX_RETRIES
    /\ c_fetches <= MAX_RETRIES
    /\ (c_pc \in {"exists", "fetch", "open", "write", "check"})
          => c_fetches <= c_attempt + 1
    /\ (c_pc = "returned" /\ c_ret = "False") => c_fetches = MAX_RETRIES

\* the call gave up after MAX_RETRIES fetches, one of which at least got as
\* far as the size check and had its file removed
C13_Witness ==
    /\ Returned
    /\ result.local_path = None
    /\ Len(DownloadFetches) = MAX_RETRIES
    /\ content = TinyPng
    /\ NoFileWritten

\* _calculate_quality_score has returned
Scored == s_pc = "scored"

\* C14: the quality score of no metadata, (0, 0, 0, ""), is 0.0.
C14_ZeroMetadataScoresZero ==
    (Scored /\ s_in = NoMetadata) => s_score = 0

\* shorter side >= 400 and longer side <= 1200
InIdealBand(width, height) ==
    Min(width, height) >= 400 /\ Max(width, height) <= 1200

\* equal ratio of longer to shorter side, both images with nonzero sides
SameAspect(w1, h1, w2, h2) ==
    /\ Min(w1, h1) > 0 /\ Min(w2, h2) > 0
    /\ Max(w1, h1) * Min(w2, h2) = Max(w2, h2) * Min(w1, h1)

\* the images of DIMS with a shorter side below 100 px and the aspect ratio
\* of the scored one
SmallTwins ==
    {d \in DIMS \X DIMS :
        /\ Min(d[1], d[2]) < 100
        /\ SameAspect(s_in.width, s_in.height, d[1], d[2])}

\* C15: with aspect ratio, byte size and format fixed, an image inside the
\* ideal band scores strictly more than an image whose shorter side is
\* below 100 px.
C15_IdealBandBeatsSmall ==
    (Scored /\ InIdealBand(s_in.width, s_in.height))
        => \A d \in SmallTwins :
              CalculateQualityScore(d[1], d[2], s_in.file_size, s_in.format)
                  < s_score

\* an ideal-band image at the top of the scale, with a small twin
C15_Witness ==
    /\ Scored
    /\ InIdealBand(s_in.width, s_in.height)
    /\ s_in.width # s_in.height
    /\ SmallTwins # {}
    /\ s_score = 100

\* C16: for every input, zero sides and unknown formats included, the score
\* lies in [0, 1] and is the sum of the resolution, aspect, file size and
\* format contributions (of weight 0.4, 0.2, 0.2, 0.2), clamped to [0, 1].
C16_ScoreIsClampedSum ==
    Scored =>
        LET res == ResolutionScore(s_in.width, s_in.height)
            asp == AspectScore(s_in.width, s_in.height)
            siz == FileSizeScore(s_in.file_size)
            fmt == FormatScore(s_in.format)
        IN  /\ 0 <= s_score /\ s_score <= 100
            /\ res \in 0..40 /\ asp \in 0..20 /\ siz \in 0..20 /\ fmt \in 0..20
            /\ s_score = Max(0, Min(res + asp + siz + fmt, 100))

\* a zero side and a format that is not in the table
C16_Witness ==
    /\ Scored
    /\ s_in.width = 0 /\ s_in.height = 600
    /\ s_in.format = "bmp"
    /\ s_score = 25

\* C17: with download=false the call still ranks the candidates and selects
\* the best one, but makes no download fetch, writes no file and returns no
\* local_path.
C17_SearchOnly ==
    ~download =>
        /\ DownloadFetches = <<>>
        /\ NoFileWritten
        /\ local_path = None
        /\ pc \notin {"dl_fetch", "dl_open", "dl_write", "dl_check"}
        /\ (Returned /\ all_results # <<>>)
              => /\ result.success
                 /\ result.local_path = None
                 /\ result.best_image = Images[1]
                 /\ \A i \in DOMAIN Images :
                       result.best_image.quality_score >= Images[i].quality_score

\* a search-only call whose best image could have been downloaded
C17_Witness ==
    /\ Returned /\ ~download
    /\ Len(Images) >= 2
    /\ Downloadable(Remote(result.best_image.url))
    /\ result.best_image.quality_score > Images[2].quality_score
    /\ DiscoveryOrder(result.best_image.url) > 1

\* what a candidate holds when _get_image_info returned (0, 0, 0, ""); a
\* decoded image has a body of at least one byte
MetadataFailed(c) ==
    c.width = 0 /\ c.height = 0 /\ c.file_size = 0 /\ c.format = ""

\* C18: in the ranked list no candidate whose metadata fetch failed stands
\* ahead of a candidate whose metadata fetch succeeded with a nonzero score.
C18_FailedRanksBehind ==
    Returned =>
        \A i, j \in DOMAIN Images :
            (i < j /\ MetadataFailed(Images[i]))
                => (MetadataFailed(Images[j]) \/ Images[j].quality_score = 0)

\* C19: a candidate whose metadata fetch or decode failed is kept in the
\* ranked list of the completed call with zero width, height and file_size,
\* empty format, and its error field set.
C19_FailedMetadataIsFlagged ==
    (Returned /\ all_results # <<>>)
        => /\ result.success
           /\ UrlsOf(Images) = UrlsOf(all_results)
           /\ \A i \in DOMAIN Images :
                 MetadataFailed(Images[i]) => Images[i].error # None

\* C20: in every downloader a response whose content type is not image/* is
\* a failed attempt: no file is written from it and no local path (or True)
\* is returned on the strength of it.
C20_NonImageTypeRejected ==
    /\ (pc \in {"dl_write", "dl_check"}) => IsImageType(content.ctype)
    /\ (Returned /\ result.local_path # None) => IsImageType(content.ctype)
    /\ (c_pc \in {"write", "check"}) => IsImageType(c_response.ctype)
    /\ (c_pc = "returned" /\ c_ret = "True" /\ c_fetches > 0)
          => IsImageType(c_response.ctype)

\* C21: every placeholder URL in the results of search_product_images (and
\* of main's fallback) is labelled with the source 'fallback' and the lowest
\* confidence; none is reported under google, bing, wikipedia or company.
C21_PlaceholdersLabelled ==
    \A i \in DOMAIN p_results :
        IsPlaceholder(p_results[i].url)
            => /\ p_results[i].source = "fallback"
               /\ \A j \in DOMAIN p_results :
                     p_results[i].confidence <= p_results[j].confidence
               /\ \A j \in DOMAIN p_results :
                     ~IsPlaceholder(p_results[j].url)
                         => p_results[i].confidence < p_results[j].confidence

\* the GETs made by the CLI download_image so far
CliFetches == SelectSeq(fetch_log, LAMBDA f : f.kind = "cli")
FetchCount(url) == Len(SelectSeq(CliFetches, LAMBDA f : f.url = url))
\* position of a URL in the ranked list
Rank(url) == CHOOSE k \in DOMAIN l_urls : l_urls[k] = url

\* C22: the download loops try the candidates in ranked order, one at a time:
\* a candidate is fetched only after every candidate ranked before it has
\* used all MAX_RETRIES attempts, no candidate is fetched again once a later
\* one has been, and the loop ends with the first successful call.
C22_SequentialFallback ==
    /\ \A j, k \in DOMAIN CliFetches :
          j < k => Rank(CliFetches[j].url) <= Rank(CliFetches[k].url)
    /\ \A k \in DOMAIN l_urls :
          /\ (k > l_i) => FetchCount(l_urls[k]) = 0
          /\ (k = l_i) => FetchCount(l_urls[k]) = c_fetches
          /\ (k < l_i) => FetchCount(l_urls[k]) = MAX_RETRIES
    /\ l_downloaded => (l_pc = "done" /\ c_ret = "True")
    /\ (l_pc = "done" /\ ~l_downloaded)
          => (l_i = Min(Len(l_urls), LOOP_CAP) /\ c_ret # "True")

\* two candidates used up, the third one fetched and stored
C22_Witness ==
    /\ l_pc = "done" /\ l_downloaded
    /\ l_i = 3
    /\ FetchCount(l_urls[1]) = MAX_RETRIES
    /\ FetchCount(l_urls[2]) = MAX_RETRIES
    /\ FetchCount(l_urls[3]) = 2
    /\ c_file = File(GoodJpeg.size, TRUE)

ProgressAtEnd == 1000

\* the stage a position of scrape_product_images belongs to
Stage(p) ==
    CASE p \in {"search_google", "search_bing", "search_ecommerce"} -> 1
      [] p = "check_sources" -> 2
      [] p = "dedup" -> 3
      [] p = "score" -> 4
      [] p = "sort" -> 5
      [] p \in {"dl_fetch", "dl_open", "dl_write", "dl_check"} -> 6
      [] p \in {"return", "done"} -> 7
      [] OTHER -> 0

\* one step of the call keeps to the order of the stages: it stays in its
\* stage or enters the next one, skips Downloading only from Selecting, and
\* leaves early only with a failed result
InStageOrder ==
    \/ Stage(pc') = Stage(pc)
    \/ Stage(pc') = Stage(pc) + 1
    \/ Stage(pc) = 5 /\ pc' = "return" /\ ~WantsDownload(download, best_image')
    \/ Stage(pc) \in {2, 3} /\ pc' = "done" /\ result'.success = FALSE

\* how far the call has come: the position in the code, the index of the
\* scoring loop and the attempt of the download loop
Progress ==
    CASE pc = "search_google" -> 100
      [] pc = "search_bing" -> 200
      [] pc = "search_ecommerce" -> 300
      [] pc = "check_sources" -> 400
      [] pc = "dedup" -> 500
      [] pc = "score" -> 600 + score_i
      [] pc = "sort" -> 700
      [] pc = "dl_fetch" -> 800 + 10 * attempt + 1
      [] pc = "dl_open" -> 800 + 10 * attempt + 2
      [] pc = "dl_write" -> 800 + 10 * attempt + 3
      [] pc = "dl_check" -> 800 + 10 * attempt + 4
      [] pc = "return" -> 900
      [] OTHER -> ProgressAtEnd

\* the call is at a position whose step can be taken: the guards of the
\* disjuncts of LiveNext
CanStep ==
    \/ pc \in {"search_google", "search_bing", "search_ecommerce", "check_sources",
               "dedup", "sort", "dl_fetch", "dl_open", "dl_write", "dl_check",
               "return"}
    \/ pc = "score" /\ score_i <= Len(candidates)

\* C23: an uncancelled call of scrape_product_images goes through Searching,
\* MinSourcesCheck, Deduplicating, Scoring, Selecting and, only if download
\* was requested, Downloading, in this order; it ends in exactly one
\* outcome, succeeded or failed, and a failed outcome is the last step.  It
\* does end: every step takes it further, the progress is bounded, and it
\* can take a step wherever it has not returned.
C23_StagesInOrder ==
    /\ [][InStageOrder]_vars
    /\ [](Stage(pc) = 6 => download)
    /\ [][(result # NoResult) => (result' = result /\ pc' = pc)]_vars
    /\ []((result = NoResult) <=> ~Returned)
    /\ [][(result'.success = FALSE /\ result' # result) =>
            (pc' = "done" /\ fetch_log' = <<>> /\ candidates' = <<>>)]_vars
    /\ [][Progress' > Progress]_vars
    /\ [](Progress <= ProgressAtEnd)
    /\ [](~Returned => CanStep)

\* a call that went through every stage, Downloading included
C23_Witness ==
    /\ Returned /\ result.success
    /\ download /\ result.local_path # None
    /\ Len(Images) >= 2
    /\ attempt > 0

\* the metadata GETs made so far, in order
MetadataFetches == SelectSeq(fetch_log, LAMBDA f : f.kind = "metadata")

\* C24: scoring fetches the metadata of the first CANDIDATE_CAP results of
\* the de-duplicated list, in discovery order, each once: the k-th metadata
\* fetch is of the k-th unique result, there are never more than
\* CANDIDATE_CAP of them, and once scoring is over there are exactly
\* min(number of unique results, CANDIDATE_CAP).
C24_ScoringCapped ==
    /\ Len(MetadataFetches) <= CANDIDATE_CAP
    /\ \A k \in DOMAIN MetadataFetches :
          /\ k <= Len(unique_results)
          /\ MetadataFetches[k].url = unique_results[k].url
    /\ pc = "score" => Len(MetadataFetches) = score_i - 1
    /\ pc \in {"sort", "return", "done"} =>
          /\ Len(MetadataFetches) = Min(Len(unique_results), CANDIDATE_CAP)
          /\ Len(candidates) = Len(MetadataFetches)

\* more unique results than the cap, scoring over, a failed fetch among them
C24_Witness ==
    /\ Returned
    /\ Len(unique_results) = CANDIDATE_CAP + 1
    /\ Len(unique_results) < Len(all_results)
    /\ Len(MetadataFetches) = CANDIDATE_CAP
    /\ \E i \in DOMAIN Images : MetadataFailed(Images[i])
    /\ unique_results[1].url > unique_results[2].url

\* the score less the contributions of the other three criteria (the sum of
\* the four never exceeds 1.0, so the clamp takes nothing away)
ResolutionPart ==
    s_score - AspectScore(s_in.width, s_in.height)
            - FileSizeScore(s_in.file_size) - FormatScore(s_in.format)

AspectPart ==
    s_score - ResolutionScore(s_in.width, s_in.height)
            - FileSizeScore(s_in.file_size) - FormatScore(s_in.format)

\* C25: for every (width, height) the resolution contribution is 0.4 when
\* the shorter side is >= 400 and the longer side <= 1200; otherwise 0.3
\* when the shorter side is >= 200 and the longer side <= 2000; otherwise
\* 0.15 when the shorter side is >= 100; otherwise 0.
C25_ResolutionBands ==
    Scored =>
        LET shorter == Min(s_in.width, s_in.height)
            longer == Max(s_in.width, s_in.height)
            ideal == shorter >= 400 /\ longer <= 1200
            acceptable == shorter >= 200 /\ longer <= 2000
            minimal == shorter >= 100
        IN  /\ ideal => ResolutionPart = 40
            /\ (~ideal /\ acceptable) => ResolutionPart = 30
            /\ (~ideal /\ ~acceptable /\ minimal) => ResolutionPart = 15
            /\ (~ideal /\ ~acceptable /\ ~minimal) => ResolutionPart = 0

\* shorter side in the ideal band, longer side just over its limit
C25_Witness ==
    /\ Scored
    /\ s_in.width = 1201 /\ s_in.height = 400
    /\ s_in.file_size = 10000 /\ s_in.format = "png"
    /\ ResolutionPart = 30
    /\ s_score = 68

\* C26: the aspect-ratio contribution is 0.2 when longer side / shorter
\* side <= 1.5, 0.1 when the ratio is <= 2.0 and 0 otherwise; with a zero
\* side the ratio is undefined, the contribution is 0 and the score is
\* still computed.
C26_AspectBands ==
    /\ (s_pc = "score" /\ (s_in.width = 0 \/ s_in.height = 0)) => ENABLED ApplyScore
    /\ Scored =>
          LET shorter == Min(s_in.width, s_in.height)
              longer == Max(s_in.width, s_in.height)
          IN  IF shorter <= 0 THEN AspectPart = 0
              ELSE /\ (10 * longer <= 15 * shorter) => AspectPart = 20
                   /\ (10 * longer > 15 * shorter /\ longer <= 2 * shorter)
                         => AspectPart = 10
                   /\ (longer > 2 * shorter) => AspectPart = 0

\* a ratio of exactly 2.0
C26_Witness ==
    /\ Scored
    /\ s_in.width = 200 /\ s_in.height = 400
    /\ s_in.file_size = 0 /\ s_in.format = "jpeg"
    /\ AspectPart = 10
    /\ s_score = 60

\* the sources that have a result in the merged list
SourcesIn(results) == {results[i].source : i \in DOMAIN results}

\* C27: whatever the three queries returned, once the searches are over
\* sources_searched holds 'google' and 'bing', and 'ecommerce' exactly when
\* ecommerce gave a valid result; so the length check passes and no call
\* returns the minimum-sources failure.
C27_MinSourcesNeverFails ==
    /\ Stage(pc) >= 2 =>
          /\ Len(sources_searched) >= MIN_SOURCES
          /\ sources_searched[1] = "google"
          /\ sources_searched[2] = "bing"
          /\ "ecommerce" \in Range(sources_searched)
                <=> "ecommerce" \in SourcesIn(all_results)
          /\ Len(sources_searched) = Cardinality(Range(sources_searched))
    /\ Returned =>
          /\ result.sources_searched = sources_searched
          /\ result.error # "InsufficientSources"

\* all three queries raised
C27_Witness ==
    /\ Returned
    /\ search_failed = {"google", "bing", "ecommerce"}
    /\ result.sources_searched = <<"google", "bing">>
    /\ result.error = "NoImagesFound"

\* C29: a returned result with success=false has no images, no best_image,
\* no local_path and an error; one with success=true has images, the first
\* of them as best_image, and no error.
C29_ResultShape ==
    Returned =>
        IF result.success
        THEN /\ result.images # <<>>
             /\ result.best_image = Head(result.images)
             /\ result.error = None
        ELSE /\ result.images = <<>>
             /\ result.best_image = NoneImage
             /\ result.local_path = None
             /\ result.error \notin {None, ""}

\* a success whose best image was not the first one discovered
C29_Witness ==
    /\ Returned /\ result.success
    /\ Len(result.images) >= 2
    /\ result.best_image.url # unique_results[1].url
    /\ result.best_image.quality_score > result.images[2].quality_score
    /\ result.local_path # None

\* C28: a download_image call of the CLI downloaders that finds a file at
\* its target path returns True at once: it fetches nothing, looks at
\* neither size nor content of the file, and leaves it as it is.  No GET is
\* made and no file is opened for writing while a file is there, so in a
\* loop that shares one filename a later candidate never overwrites a file
\* that an earlier one left.
C28_ExistingFileKept ==
    /\ [][(c_pc = "exists" /\ c_file # NoFile) =>
            /\ c_pc' = "returned" /\ c_ret' = "True"
            /\ c_file' = c_file
            /\ c_fetches' = c_fetches /\ fetch_log' = fetch_log]_vars
    /\ [][(c_pc = "exists" /\ c_attempt = 0 /\ c_file # NoFile) =>
            (c_fetches' = 0 /\ c_attempt' = 0)]_vars
    /\ [](c_pc \in {"fetch", "open"} => c_file = NoFile)
    /\ [][(c_file # NoFile /\ c_pc \in {"idle", "exists", "returned"}) =>
            c_file' = c_file]_vars

\* an empty file was there before the loop: the first call returns True,
\* nothing is fetched and the file is still empty
C28_Witness ==
    /\ l_pc = "done" /\ l_downloaded
    /\ l_i = 1 /\ Len(l_urls) >= 2
    /\ c_ret = "True" /\ c_attempt = 0
    /\ fetch_log = <<>>
    /\ c_file = File(0, FALSE)

\* C30: when download_image returns failure (None in the scraper, False in
\* the CLI downloaders), no file that the call wrote is left at its target
\* path.
C30_NoFileAfterFailure ==
    /\ (pc \in {"return", "done"} /\ download /\ attempt > 0 /\ local_path = None)
          => NoFileWritten
    /\ (c_pc = "returned" /\ c_ret = "False") => c_file = NoFile

====
